---- MODULE Spec2Model ----
(***************************************************************************)
(* The three GAN scripts of src/gans (simple_gan.py, cgan.py,              *)
(* conditional_gan_multi.py) as one state machine: a Python process runs   *)
(* the functions of one script against a file system.  A step is one       *)
(* statement group of the running function; an exception ends the process. *)
(***************************************************************************)
EXTENDS Integers, Sequences, FiniteSets, TLC

VARIABLES
    script,          \* which of the three scripts the process runs
    data,            \* the input dataset: rows per split and label
    files,           \* the file system: path -> content
    entry,           \* the file system when the running top-level call began
    written,         \* paths written by this process
    pc,              \* position of the process
    stmt,            \* top-level statements of the module executed so far
    driver,          \* "module": the module's own top level; "any": a caller
    call,            \* the running function and its arguments
    outer,           \* the function that called generate_synthetic_samples
    mem,             \* values returned to the top level
    train_loader,    \* the DataLoader of train_gan
    epoch, idx,      \* loop counters of train_gan
    G, D,            \* generator and discriminator: parameters and .grad
    outputs, targets, fake_targets,   \* tensors of the current iteration
    noise,           \* the noise tensor last drawn by train_gan
    fake_class_labels,   \* the class labels last drawn by train_gan
    fake_pass,       \* what G and D were given in the last fake forward
                     \* pass of the discriminator step and of the generator step
    lists,           \* acc, epoch_D_loss, epoch_G_loss, mean_D_loss, ...
    steps,           \* optimizer steps taken by the running train_gan
    gen              \* locals of generate_synthetic_samples

vars == <<script, data, files, entry, written, pc, stmt, driver, call, outer, mem,
          train_loader, epoch, idx, G, D, outputs, targets, fake_targets,
          noise, fake_class_labels, fake_pass, lists, steps, gen>>

trainVars == <<train_loader, epoch, idx, G, D, outputs, targets,
               fake_targets, noise, fake_class_labels, fake_pass, lists,
               steps>>

(***************************************************************************)
(* Bounds of the model.                                                    *)
(***************************************************************************)
MaxEpochs == 2
SmallRows == 2
Hundreds == 2

(***************************************************************************)
(* Program constants.                                                      *)
(***************************************************************************)
bs_simple == 64
bs_cgan == 64
bs_multi == 512
LogEvery == 100
num_classes_cgan == 2
num_of_classes == 6

Scripts == {"simple_gan", "cgan", "conditional_gan_multi"}

bs(s) == IF s = "simple_gan" THEN bs_simple
         ELSE IF s = "cgan" THEN bs_cgan ELSE bs_multi

Labels == 0 .. (num_of_classes - 1)

None == [kind |-> "none"]
Absent == [kind |-> "absent"]

(***************************************************************************)
(* Tensors: a shape and the flattened entries.                             *)
(***************************************************************************)
Numel(shape) == IF shape = <<>> THEN 1
                ELSE IF Len(shape) = 1 THEN shape[1] ELSE shape[1] * shape[2]

Fill(n, v) == [shape |-> <<n, 1>>, data |-> [i \in 1 .. n |-> v]]

ones(n) == Fill(n, 1)

\* fake rows labelled as real
zeros_as_ones(n) == Fill(n, 1)

zeros(n) == Fill(n, 0)

\* Tensor.squeeze(): every dimension of size 1 is removed.
squeeze(t) == [t EXCEPT !.shape = SelectSeq(t.shape, LAMBDA d : d # 1)]

\* Tensor.view(-1, 1)
view_col(t) == [t EXCEPT !.shape = <<Numel(t.shape), 1>>]

\* torch.cat((a, b), 0) raises on zero-dimensional tensors and on tensors
\* whose other dimensions differ.
cat_ok(a, b) == /\ a.shape # <<>>
                /\ b.shape # <<>>
                /\ Tail(a.shape) = Tail(b.shape)

cat(a, b) == [shape |-> <<a.shape[1] + b.shape[1]>> \o Tail(a.shape),
              data |-> a.data \o b.data]

(***************************************************************************)
(* Paths.                                                                  *)
(***************************************************************************)
RawData == "final_data_no_rts_v2"
TrainBots == "../data/original_data/train_binary_data_bots"
TrainHumans == "../data/original_data/train_binary_data_humans"
TrainMulti == "../data/original_data/train_multiclass_data"
TestMulti == "../data/original_data/test_multiclass_data"
SimpleTest == "simple_gan/test_data"
SimpleScaler == "simple_gan/scaler.save"
CganScaler == "conditional_gan/scaler.save"
MultiScaler == "conditional_gan_multi/scaler.save"
BotGenerator == "simple_gan/Bot_Generator_save.pth"
HumanGenerator == "simple_gan/Human_Generator_save.pth"
CganGenerator == "conditional_gan/Conditional_Generator_save.pth"
MultiGenerator == "conditional_gan_multi/Conditional_Generator_save.pth"
SimpleSynthBot100 == "simple_gan/synthetic_bot_data_100"
SimpleSynthBot30000 == "simple_gan/synthetic_bot_data_30000"
SimpleSynthHuman100 == "simple_gan/synthetic_human_data_100"
SimpleSynthHuman30000 == "simple_gan/synthetic_human_data_30000"
CganSynthTest == "../data/synthetic_data/conditional_gan/synthetic_binary_test_data"
CganSynthTrain == "../data/synthetic_data/conditional_gan/synthetic_binary_train_data"
Cgan2to1 == "../data/synthetic_data/cgan/synthetic_data_2_to_1"
Multi30K == "../data/synthetic_data/conditional_gan_multiclass/synthetic_data_30K_per_class_norm"
Multi2to1 == "../data/synthetic_data/conditional_gan_multiclass/synthetic_data_2_to_1"
MultiSynthTest == "../data/synthetic_data/conditional_gan_multiclass/synthetic_test_data"
MultiSynthBalanced == "../data/synthetic_data/conditional_gan_multiclass/synthetic_test_data_balanced"

SimpleLossPlot == "simple_gan/gan_loss.png"
SimpleAccPlot == "simple_gan/discriminator_acc.png"
CganLossPlot == "conditional_gan/cond_gan_loss.png"
CganAccPlot == "conditional_gan/cond_discriminator_acc.png"
MultiLossPlot == "conditional_gan_multi/cond_gan_loss.png"
MultiAccPlot == "conditional_gan_multi/cond_discriminator_acc.png"

PlotPaths == {SimpleLossPlot, SimpleAccPlot, CganLossPlot, CganAccPlot,
              MultiLossPlot, MultiAccPlot}

ScalerPaths == {SimpleScaler, CganScaler, MultiScaler}

GeneratorPaths == {BotGenerator, HumanGenerator, CganGenerator, MultiGenerator}

SyntheticPaths == {SimpleSynthBot100, SimpleSynthBot30000, SimpleSynthHuman100,
                   SimpleSynthHuman30000, CganSynthTest,
                   CganSynthTrain, Cgan2to1, Multi30K, Multi2to1,
                   MultiSynthTest, MultiSynthBalanced}

Paths == ScalerPaths \cup GeneratorPaths \cup SyntheticPaths \cup PlotPaths
             \cup {SimpleTest}

(***************************************************************************)
(* Data frames.  A part is the rows of one input file that fall in one     *)
(* split and carry one label; a row is <<part, i>>; a frame is a set of    *)
(* parts.  data[part] is the number of rows of the part.                   *)
(***************************************************************************)
Part(file, split, label) == <<file, split, label>>

SimpleParts == {Part(RawData, sp, l) : sp \in {"train", "test"}, l \in {0, 1}}

BinaryParts == {Part(TrainBots, "all", 1), Part(TrainHumans, "all", 0)}

MultiTrainParts == {Part(TrainMulti, "all", l) : l \in Labels}

MultiTestParts == {Part(TestMulti, "all", l) : l \in Labels}

AllParts == SimpleParts \cup BinaryParts \cup MultiTrainParts \cup MultiTestParts

RowsOf(frame) == UNION {{<<p, i>> : i \in 1 .. data[p]} : p \in frame}

RECURSIVE NRows(_)
NRows(frame) ==
    IF frame = {} THEN 0
    ELSE LET p == CHOOSE q \in frame : TRUE
         IN  data[p] + NRows(frame \ {p})

Frame(parts) == [kind |-> "frame", rows |-> parts]

LabelsOf(frame) == {p[3] : p \in {q \in frame : data[q] > 0}}

(***************************************************************************)
(* prepare_data.  The result says whether an exception was raised, what    *)
(* was written before it, and the three values returned.                   *)
(***************************************************************************)
Scaler(s, frame) == [kind |-> "scaler", by |-> s, fitted_on |-> frame]

Loader(frame, batch_size) ==
    [kind |-> "loader", rows |-> frame, n |-> NRows(frame),
     batch_size |-> batch_size]

\* len(train_loader): the number of batches, the last one possibly smaller
len(loader) == (loader.n + loader.batch_size - 1) \div loader.batch_size

\* the number of rows of the k-th batch (k = idx, counted from 1)
BatchRows(loader, k) ==
    IF k * loader.batch_size <= loader.n THEN loader.batch_size
    ELSE loader.n - (k - 1) * loader.batch_size

Raised(fs, w) == [raised |-> TRUE, files |-> fs, written |-> w,
                  train_loader |-> None, df |-> None, third |-> None]

\* the value of the bots parameter when the caller does not pass it
prepare_data_bots == TRUE

\* the value of batch_size when the caller does not pass it
prepare_data_batch_size(s) ==
    IF s = "simple_gan" THEN 64 ELSE IF s = "cgan" THEN 512 ELSE 256

simple_prepare_data(batch_size, bots, fs) ==
    LET train_set == {Part(RawData, "train", l) : l \in {0, 1}}
        test_set == {Part(RawData, "test", l) : l \in {0, 1}}
        fs1 == [fs EXCEPT ![SimpleTest] = [kind |-> "frame", rows |-> test_set]]
        df == IF bots THEN {Part(RawData, "train", 1)}
              ELSE {Part(RawData, "train", 0)}
        fs2 == [fs1 EXCEPT ![SimpleScaler] = Scaler("simple_gan", df)]
    IN  IF NRows(train_set) = 0 THEN Raised(fs, {})
        ELSE IF NRows(df) = 0 THEN Raised(fs1, {SimpleTest})
        ELSE [raised |-> FALSE, files |-> fs2,
              written |-> {SimpleTest, SimpleScaler},
              train_loader |-> Loader(df, batch_size),
              df |-> df, third |-> df]

cgan_prepare_data(batch_size, bots, fs) ==
    LET df == BinaryParts
        df_filtered == IF bots THEN {p \in df : p[3] = 1}
                       ELSE {p \in df : p[3] = 0}
        fs1 == [fs EXCEPT ![CganScaler] = Scaler("cgan", df)]
    IN  IF NRows(df) = 0 THEN Raised(fs, {})
        ELSE [raised |-> FALSE, files |-> fs1, written |-> {CganScaler},
              train_loader |-> Loader(df, batch_size),
              df |-> df, third |-> df_filtered]

multi_prepare_data(batch_size, fs) ==
    LET df == MultiTrainParts
        fs1 == [fs EXCEPT ![MultiScaler] = Scaler("conditional_gan_multi", df)]
    IN  IF NRows(df) = 0 THEN Raised(fs, {})
        ELSE [raised |-> FALSE, files |-> fs1, written |-> {MultiScaler},
              train_loader |-> Loader(df, batch_size),
              df |-> df, third |-> df]

prepare_data(s, batch_size, bots, fs) ==
    IF s = "simple_gan" THEN simple_prepare_data(batch_size, bots, fs)
    ELSE IF s = "cgan" THEN cgan_prepare_data(batch_size, bots, fs)
    ELSE multi_prepare_data(batch_size, fs)

(***************************************************************************)
(* Networks and optimizers.  A network is the number of updates its        *)
(* parameters received, the losses whose gradients are accumulated in its  *)
(* .grad buffers, and the gradient its last update applied.                *)
(***************************************************************************)
Network == [params |-> 0, grad |-> {}, applied |-> {}]

\* a generator optimizer built over the discriminator's parameters
G_optimizer_over_D == {"D"}

\* optim.Adam(G.parameters(), ...): the networks whose parameters it holds
G_optimizer == {"G"}

\* a discriminator optimizer built over the parameters of both networks
D_optimizer_over_both == {"D", "G"}

\* optim.Adam(D.parameters(), ...)
D_optimizer == {"D"}

\* a zero_grad() that leaves the gradient buffers as they are
zero_grad_skipped(opt, nets) == nets

\* optimizer.zero_grad(): the buffers of the optimizer's parameters are emptied
zero_grad(opt, nets) ==
    [n \in DOMAIN nets |->
        IF n \in opt THEN [nets[n] EXCEPT !.grad = {}] ELSE nets[n]]

\* loss.backward(): the gradient reaches every network the loss was
\* computed through and is added to what its buffers hold
backward(l, through, nets) ==
    [n \in DOMAIN nets |->
        IF n \in through THEN [nets[n] EXCEPT !.grad = @ \cup {l}] ELSE nets[n]]

step(opt, nets) ==
    [n \in DOMAIN nets |->
        IF n \in opt
        THEN [nets[n] EXCEPT !.params = @ + 1, !.applied = nets[n].grad]
        ELSE nets[n]]

\* the networks whose parameters an optimizer step changed
Updated(before, after) ==
    {n \in DOMAIN before : after[n].params # before[n].params}

\* D(x) on a batch of n rows, every output tagged with where its input came from
Discriminator(s, n, tag) ==
    IF s = "simple_gan" THEN Fill(n, tag) ELSE squeeze(Fill(n, tag))

\* nn.BCELoss()(input, target) needs both of one shape
loss_ok(input, target) == input.shape = target.shape

NoTensor == [shape |-> <<0>>, data |-> <<>>]

\* A random tensor is known by the call that drew it: two of them are the
\* same tensor exactly when they come from one call of torch.rand or
\* torch.randint.  at is the place of the call: epoch, batch, step.
\* (torch.rand(n, 128) - 0.5) / 0.5
rand(n, at) == [kind |-> "noise", n |-> n, draw |-> at]

\* torch.randint(0, num_classes, (n,)): n labels, each in 0 .. num_classes - 1;
\* simple_gan has no class labels
FakeClassLabels(s, n, at) ==
    IF s = "simple_gan" THEN None
    ELSE [kind |-> "labels", n |-> n, draw |-> at,
          values |-> 0 .. ((IF s = "cgan" THEN num_classes_cgan
                            ELSE num_of_classes) - 1)]

\* fake_inputs = G(noise, labels); fake_outputs = D(fake_inputs, labels)
Forward(z, labels) ==
    [kind |-> "pass", noise |-> z, G_labels |-> labels, D_labels |-> labels]

NoPass == [D |-> None, G |-> None]

\* class labels drawn again for the generator step
redrawn_labels(current, fresh) == fresh

\* the generator step passes the variable fake_class_labels, assigned in the
\* discriminator step and not since
reused_labels(current, fresh) == current

EmptyLists == [acc |-> <<>>, epoch_D_loss |-> <<>>, epoch_G_loss |-> <<>>,
               mean_D_loss |-> <<>>, mean_G_loss |-> <<>>, D_acc |-> <<>>]

\* no train_gan is running: its locals do not exist
NoTraining ==
    /\ train_loader' = None
    /\ epoch' = 0
    /\ idx' = 0
    /\ G' = Network
    /\ D' = Network
    /\ outputs' = NoTensor
    /\ targets' = NoTensor
    /\ fake_targets' = NoTensor
    /\ noise' = None
    /\ fake_class_labels' = None
    /\ fake_pass' = NoPass
    /\ lists' = EmptyLists
    /\ steps' = <<>>

(***************************************************************************)
(* train_gan                                                               *)
(***************************************************************************)
Raise ==
    pc' = "raised"

\* models, optimizers, prepare_data(batch_size=bs), the three result lists
TrainGanBegin(c) ==
    LET r == prepare_data(script, bs(script), prepare_data_bots, files)
    IN  /\ call' = c
        /\ entry' = files
        /\ files' = r.files
        /\ written' = written \cup r.written
        /\ train_loader' = r.train_loader
        /\ epoch' = 0
        /\ idx' = 0
        /\ G' = Network
        /\ D' = Network
        /\ outputs' = NoTensor
        /\ targets' = NoTensor
        /\ fake_targets' = NoTensor
        /\ noise' = None
        /\ fake_class_labels' = None
        /\ fake_pass' = NoPass
        /\ lists' = EmptyLists
        /\ steps' = <<>>
        /\ IF r.raised THEN Raise ELSE pc' = "for_epoch"

\* for epoch in range(epochs): acc = [] ...
ForEpoch ==
    /\ pc = "for_epoch"
    /\ epoch < call.epochs
    /\ lists' = [lists EXCEPT !.acc = <<>>, !.epoch_D_loss = <<>>,
                              !.epoch_G_loss = <<>>]
    /\ idx' = 0
    /\ pc' = "for_batch"
    /\ UNCHANGED <<script, data, files, entry, written, stmt, driver, call,
                   outer, mem, train_loader, epoch, G, D, outputs, targets,
                   fake_targets, noise, fake_class_labels, fake_pass, steps,
                   gen>>

\* the first half of the loop body: the discriminator is trained
TrainDiscriminator ==
    /\ pc = "for_batch"
    /\ idx < len(train_loader)
    /\ LET n == BatchRows(train_loader, idx + 1)
           real_outputs == Discriminator(script, n, "real")
           real_label == ones(n)
           fake_outputs == Discriminator(script, n, "fake")
           fake_label == zeros(n)
           joined == cat(real_outputs, fake_outputs)
           outs == IF script = "simple_gan" THEN joined ELSE view_col(joined)
           targs == cat(real_label, fake_label)
           D_loss == <<"D_loss", epoch, idx + 1>>
           nets0 == [G |-> G, D |-> D]
           nets1 == zero_grad(D_optimizer, nets0)
           nets2 == backward(D_loss, {"G", "D"}, nets1)
           nets3 == step(D_optimizer, nets2)
           z == rand(n, <<epoch, idx + 1, "D">>)
           labels == FakeClassLabels(script, n, <<epoch, idx + 1, "D">>)
       IN  /\ idx' = idx + 1
           /\ noise' = z
           /\ fake_class_labels' = labels
           /\ fake_pass' = [fake_pass EXCEPT !.D = Forward(z, labels)]
           /\ IF ~cat_ok(real_outputs, fake_outputs)
              THEN /\ Raise
                   /\ UNCHANGED <<G, D, outputs, targets, steps>>
              ELSE IF ~loss_ok(outs, targs)
              THEN /\ Raise
                   /\ outputs' = outs
                   /\ targets' = targs
                   /\ UNCHANGED <<G, D, steps>>
              ELSE /\ outputs' = outs
                   /\ targets' = targs
                   /\ G' = nets3.G
                   /\ D' = nets3.D
                   /\ steps' = Append(steps, Updated(nets0, nets3))
                   /\ pc' = "train_G"
    /\ UNCHANGED <<script, data, files, entry, written, stmt, driver, call,
                   outer, mem, train_loader, epoch, fake_targets, lists, gen>>

\* monitoring values kept at multiples of LogEvery only
recorded_at_multiples(i, loader) == i % LogEvery = 0

\* if idx % 100 == 0 or idx == len(train_loader): the iteration's monitoring
\* values are kept
recorded(i, loader) == i % LogEvery = 0 \/ i = len(loader)

\* the second half of the loop body: the generator is trained, and the
\* monitoring values of the iteration are kept every LogEvery batches
TrainGenerator ==
    /\ pc = "train_G"
    /\ LET n == BatchRows(train_loader, idx)
           fake_out == Discriminator(script, n, "fake")
           fake_outputs == IF script = "simple_gan" THEN fake_out
                           ELSE view_col(fake_out)
           ftargs == ones(n)
           G_loss == <<"G_loss", epoch, idx>>
           D_loss == <<"D_loss", epoch, idx>>
           nets0 == [G |-> G, D |-> D]
           nets1 == zero_grad(G_optimizer, nets0)
           nets2 == backward(G_loss, {"G", "D"}, nets1)
           nets3 == step(G_optimizer, nets2)
           z == rand(n, <<epoch, idx, "G">>)
           labels == reused_labels(fake_class_labels,
                                   FakeClassLabels(script, n, <<epoch, idx, "G">>))
       IN  /\ fake_targets' = ftargs
           /\ noise' = z
           /\ fake_class_labels' = labels
           /\ fake_pass' = [fake_pass EXCEPT !.G = Forward(z, labels)]
           /\ IF ~loss_ok(fake_outputs, ftargs)
              THEN /\ Raise
                   /\ UNCHANGED <<G, D, steps, lists>>
              ELSE /\ G' = nets3.G
                   /\ D' = nets3.D
                   /\ steps' = Append(steps, Updated(nets0, nets3))
                   /\ lists' =
                        IF recorded(idx, train_loader)
                        THEN [lists EXCEPT
                                !.epoch_D_loss = Append(@, D_loss),
                                !.epoch_G_loss = Append(@, G_loss),
                                !.acc = Append(@, <<"D_accuracy", epoch, idx>>)]
                        ELSE lists
                   /\ pc' = "for_batch"
    /\ UNCHANGED <<script, data, files, entry, written, stmt, driver, call,
                   outer, mem, train_loader, epoch, idx, outputs, targets, gen>>

\* after the last batch: the means of the epoch (statistics.mean raises on
\* an empty list)
EpochEnd ==
    /\ pc = "for_batch"
    /\ idx = len(train_loader)
    /\ IF lists.acc = <<>>
       THEN /\ Raise
            /\ UNCHANGED <<lists, epoch>>
       ELSE /\ lists' = [lists EXCEPT
                           !.mean_D_loss = Append(@, <<"mean", lists.epoch_D_loss>>),
                           !.mean_G_loss = Append(@, <<"mean", lists.epoch_G_loss>>),
                           !.D_acc = Append(@, <<"mean", lists.acc>>)]
            /\ epoch' = epoch + 1
            /\ pc' = "for_epoch"
    /\ UNCHANGED <<script, data, files, entry, written, stmt, driver, call,
                   outer, mem, train_loader, idx, G, D, outputs, targets,
                   fake_targets, noise, fake_class_labels, fake_pass, steps,
                   gen>>

LossPlot(s) == IF s = "simple_gan" THEN SimpleLossPlot
               ELSE IF s = "cgan" THEN CganLossPlot ELSE MultiLossPlot

AccPlot(s) == IF s = "simple_gan" THEN SimpleAccPlot
              ELSE IF s = "cgan" THEN CganAccPlot ELSE MultiAccPlot

\* the generator saved under the other class's name
GeneratorFile_swapped(s, bots) ==
    IF s = "simple_gan" THEN (IF bots THEN HumanGenerator ELSE BotGenerator)
    ELSE IF s = "cgan" THEN CganGenerator ELSE MultiGenerator

\* the file torch.save(G, ...) writes
GeneratorFile(s, bots) ==
    IF s = "simple_gan" THEN (IF bots THEN BotGenerator ELSE HumanGenerator)
    ELSE IF s = "cgan" THEN CganGenerator ELSE MultiGenerator

SavedGenerator(s, loader, net) ==
    [kind |-> "generator", by |-> s, trained_on |-> loader.rows,
     params |-> net.params]

\* the place of a function's call among the statements at the end of the file
Stage(c) ==
    IF c.fn = "train_gan" THEN 1
    ELSE IF c.fn = "generate_synthetic_samples" THEN 2
    ELSE IF c.fn \in {"create_final_synthetic_dataset",
                      "generate_samples_to_reach_30K_per_class"} THEN 3
    ELSE IF c.fn = "generate_2to1_synthetic_samples" THEN 4
    ELSE IF c.fn = "evaluate_synthetic_data" THEN 5
    ELSE 6

\* the function called by c returns to the top level
Return(c) ==
    /\ pc' = "idle"
    /\ stmt' = IF driver = "module" THEN stmt + 1 ELSE Stage(c)

\* after the last epoch: the two plots, then the generator is saved
SaveGenerator ==
    /\ pc = "for_epoch"
    /\ epoch = call.epochs
    /\ LET path == GeneratorFile(script, script = "simple_gan" /\ call.bots)
       IN  /\ files' = [files EXCEPT
                          ![LossPlot(script)] = [kind |-> "plot"],
                          ![AccPlot(script)] = [kind |-> "plot"],
                          ![path] = SavedGenerator(script, train_loader, G)]
           /\ written' = written \cup {LossPlot(script), AccPlot(script), path}
    /\ Return(call)
    /\ UNCHANGED <<script, data, entry, driver, call, outer, mem, gen>>
    /\ UNCHANGED trainVars

(***************************************************************************)
(* generate_synthetic_samples                                              *)
(***************************************************************************)
\* 'simple_gan/synthetic_bot_data_' + str(num_of_samples)
simple_synthetic_file(bots, num_of_samples) ==
    IF bots
    THEN (IF num_of_samples = 100 THEN SimpleSynthBot100 ELSE SimpleSynthBot30000)
    ELSE (IF num_of_samples = 100 THEN SimpleSynthHuman100
          ELSE SimpleSynthHuman30000)

\* torch.randint(low, high, (n,)): n labels, each one of low .. high - 1
\* a randint whose upper end can be drawn
randint_inclusive(low, high, n) == [n |-> n, values |-> low .. high]

\* torch.randint(low, high, (n,)): n integers, each in low .. high - 1
randint(low, high, n) == [n |-> n, values |-> low .. (high - 1)]

\* the class labels the generator is conditioned on
class_labels(s, c) ==
    IF s = "simple_gan" THEN None
    ELSE IF s = "cgan"
    THEN (IF c.bots THEN randint(1, num_classes_cgan, c.num_of_samples)
          ELSE randint(0, num_classes_cgan - 1, c.num_of_samples))
    ELSE randint(c.label, c.label + 1, c.num_of_samples)

\* the file generate_synthetic_samples loads the scaler from
scaler_file(s) ==
    IF s = "simple_gan" THEN SimpleScaler
    ELSE IF s = "cgan" THEN CganScaler ELSE CganScaler

NoGen == [args |-> None, real_data |-> None, generator |-> None,
          synthetic_samples |-> None, scaler |-> None,
          synthetic_data |-> None]

\* "Load initial data": prepare_data with this function's bots
GenerateBegin(c) ==
    LET r == prepare_data(script, prepare_data_batch_size(script),
                          script # "conditional_gan_multi" /\ c.bots, files)
    IN  /\ files' = r.files
        /\ written' = written \cup r.written
        /\ gen' = [NoGen EXCEPT
                     !.args = c,
                     !.real_data = IF r.raised THEN None
                                   ELSE IF script = "cgan" THEN Frame(r.third)
                                   ELSE Frame(r.df)]
        /\ IF r.raised THEN Raise ELSE pc' = "gen_load"

\* a missing generator file caught and ignored
GenerateSamples_caught ==
    /\ pc = "gen_load"
    /\ LET c == gen.args
           path == GeneratorFile(script, script = "simple_gan" /\ c.bots)
           generator == IF files[path] = Absent THEN None ELSE files[path]
       IN  /\ gen' = [gen EXCEPT
                        !.generator = generator,
                        !.synthetic_samples =
                            [kind |-> "samples", n |-> c.num_of_samples,
                             generator |-> generator,
                             labels |-> class_labels(script, c)]]
           /\ pc' = "gen_inverse"
    /\ UNCHANGED <<script, data, files, entry, written, stmt, driver, call,
                   outer, mem>>
    /\ UNCHANGED trainVars

\* torch.load of the generator, the noise, the labels, the forward pass
GenerateSamples ==
    /\ pc = "gen_load"
    /\ LET c == gen.args
           path == GeneratorFile(script, script = "simple_gan" /\ c.bots)
       IN  IF files[path] = Absent
           THEN /\ Raise
                /\ UNCHANGED gen
           ELSE /\ gen' = [gen EXCEPT
                             !.generator = files[path],
                             !.synthetic_samples =
                                 [kind |-> "samples", n |-> c.num_of_samples,
                                  generator |-> files[path],
                                  labels |-> class_labels(script, c)]]
                /\ pc' = "gen_inverse"
    /\ UNCHANGED <<script, data, files, entry, written, stmt, driver, call,
                   outer, mem>>
    /\ UNCHANGED trainVars

\* joblib.load of the scaler, inverse_transform, the label column
GenerateInverse ==
    /\ pc = "gen_inverse"
    /\ LET path == scaler_file(script)
       IN  IF files[path] = Absent
           THEN /\ Raise
                /\ UNCHANGED gen
           ELSE /\ gen' = [gen EXCEPT
                             !.scaler = files[path],
                             !.synthetic_data =
                                 [kind |-> "synthetic",
                                  n |-> gen.synthetic_samples.n,
                                  generator |-> gen.generator,
                                  scaler |-> files[path],
                                  labels |-> gen.synthetic_samples.labels]]
                /\ pc' = "gen_return"
    /\ UNCHANGED <<script, data, files, entry, written, stmt, driver, call,
                   outer, mem>>
    /\ UNCHANGED trainVars

\* simple_gan dumps the synthetic data; every script returns it
GenerateReturn ==
    /\ pc = "gen_return"
    /\ LET path == simple_synthetic_file(gen.args.bots, gen.args.num_of_samples)
       IN  IF script = "simple_gan"
           THEN /\ files' = [files EXCEPT ![path] = gen.synthetic_data]
                /\ written' = written \cup {path}
           ELSE UNCHANGED <<files, written>>
    /\ IF outer = None
       THEN /\ mem' = [mem EXCEPT
                         !.synthetic_data = gen.synthetic_data,
                         !.real_data = IF script = "cgan" THEN None
                                       ELSE gen.real_data]
            /\ Return(call)
            /\ UNCHANGED outer
       ELSE /\ outer' = [outer EXCEPT !.parts = Append(@, gen.synthetic_data)]
            /\ pc' = "outer_next"
            /\ UNCHANGED <<mem, stmt>>
    /\ gen' = NoGen
    /\ UNCHANGED <<script, data, entry, driver, call>>
    /\ UNCHANGED trainVars

(***************************************************************************)
(* The functions that build a synthetic dataset from several calls of      *)
(* generate_synthetic_samples.                                             *)
(***************************************************************************)
Gen(n, c) == [fn |-> "generate_synthetic_samples", num_of_samples |-> n] @@ c

\* the calls of generate_synthetic_samples a function makes, in order
plan(c) ==
    IF c.fn = "create_final_synthetic_dataset"
    THEN (IF c.test
          THEN <<Gen(13688 \div 2, [bots |-> TRUE]), Gen(13688 \div 2, [bots |-> FALSE])>>
          ELSE <<Gen(30000, [bots |-> TRUE]), Gen(30000, [bots |-> FALSE])>>)
    ELSE IF c.fn = "generate_samples_to_reach_30K_per_class"
    THEN <<Gen(30000 - 24403, [label |-> 0]), Gen(30000 - 9333, [label |-> 1]),
           Gen(30000 - 408, [label |-> 2]), Gen(30000 - 13283, [label |-> 3]),
           Gen(30000 - 958, [label |-> 4]), Gen(30000 - 4703, [label |-> 5])>>
    ELSE IF c.fn = "generate_2to1_synthetic_samples"
    THEN <<Gen(2 * 9333, [label |-> 1]), Gen(2 * 408, [label |-> 2]),
           Gen(2 * 13283, [label |-> 3]), Gen(2 * 958, [label |-> 4]),
           Gen(2 * 4703, [label |-> 5])>>
    ELSE IF c.two_to_one
    THEN [l \in 1 .. 6 |-> Gen(2200, [label |-> l - 1])]
    ELSE <<Gen(6032, [label |-> 0]), Gen(2306, [label |-> 1]),
           Gen(88, [label |-> 2]), Gen(3431, [label |-> 3]),
           Gen(239, [label |-> 4]), Gen(1177, [label |-> 5])>>

\* the file the function dumps final_df to
final_file(c) ==
    IF c.fn = "create_final_synthetic_dataset"
    THEN (IF c.test THEN CganSynthTest ELSE CganSynthTrain)
    ELSE IF c.fn = "generate_samples_to_reach_30K_per_class" THEN Multi30K
    ELSE IF c.fn = "generate_2to1_synthetic_samples" THEN Multi2to1
    ELSE IF c.two_to_one THEN MultiSynthBalanced ELSE MultiSynthTest

\* pd.concat(pdList), shuffled
concat(pdList) == [kind |-> "synthetic_set", parts |-> pdList]

\* the number of rows of pd.concat(pdList) whose label is surely in classes:
\* the rows of the frames of pdList whose labels all are
RECURSIVE CountRows(_, _)
CountRows(pdList, classes) ==
    IF pdList = <<>> THEN 0
    ELSE (IF Head(pdList).labels.values \subseteq classes
          THEN Head(pdList).n ELSE 0)
            + CountRows(Tail(pdList), classes)

DatasetBegin(c) ==
    /\ call' = c
    /\ entry' = files
    /\ outer' = [fn |-> c, parts |-> <<>>]
    /\ pc' = "outer_next"
    /\ UNCHANGED <<files, written, gen>>
    /\ NoTraining

\* the next call of generate_synthetic_samples
DatasetNext ==
    /\ pc = "outer_next"
    /\ Len(outer.parts) < Len(plan(outer.fn))
    /\ GenerateBegin(plan(outer.fn)[Len(outer.parts) + 1])
    /\ UNCHANGED <<script, data, entry, stmt, driver, call, outer, mem>>
    /\ UNCHANGED trainVars

\* all parts generated: concatenate, shuffle, dump, return
DatasetDump ==
    /\ pc = "outer_next"
    /\ Len(outer.parts) = Len(plan(outer.fn))
    /\ files' = [files EXCEPT ![final_file(outer.fn)] = concat(outer.parts)]
    /\ written' = written \cup {final_file(outer.fn)}
    /\ outer' = None
    /\ Return(call)
    /\ UNCHANGED <<script, data, entry, driver, call, mem, gen>>
    /\ UNCHANGED trainVars

(***************************************************************************)
(* evaluate_synthetic_data                                                 *)
(***************************************************************************)
NoMem == [synthetic_data |-> None, real_data |-> None, compared |-> {},
          opened |-> {}]

\* a synthetic-data file is opened with pickle.load
Opened(path) == [path |-> path, written_before |-> path \in written]

\* the synthetic data are compared with a real data frame by a metric
Compared(synthetic, real) == [synthetic |-> synthetic, real |-> real]

\* the synthetic-data file the function opens first
first_synthetic_file(s) == IF s = "cgan" THEN Cgan2to1 ELSE Multi30K

EvaluateBegin(c) ==
    /\ call' = c
    /\ entry' = files
    /\ NoTraining
    /\ IF script = "simple_gan"
       THEN /\ mem' = [mem EXCEPT
                         !.compared = @ \cup
                            {Compared(mem.synthetic_data, mem.real_data)}]
            /\ Return(c)
       ELSE LET path == first_synthetic_file(script)
                real_data == Frame(MultiTrainParts)
                test_data == Frame(MultiTestParts)
            IN  IF script = "conditional_gan_multi" /\ files[CganScaler] = Absent
                THEN /\ Raise
                     /\ UNCHANGED <<mem, stmt>>
                ELSE IF files[path] = Absent
                THEN /\ Raise
                     /\ UNCHANGED <<mem, stmt>>
                ELSE /\ mem' = [mem EXCEPT
                                  !.opened = @ \cup {Opened(path)},
                                  !.compared = @ \cup
                                     {Compared(files[path], real_data),
                                      Compared(files[path], test_data)}]
                     /\ IF script = "cgan"
                        THEN Return(c)
                        ELSE /\ pc' = "eval_second"
                             /\ UNCHANGED stmt
    /\ UNCHANGED <<files, written, outer, gen>>

\* conditional_gan_multi: the 2:1 synthetic dataset is evaluated as well
EvaluateSecond ==
    /\ pc = "eval_second"
    /\ IF files[Multi2to1] = Absent
       THEN /\ Raise
            /\ UNCHANGED <<mem, stmt>>
       ELSE /\ mem' = [mem EXCEPT
                         !.opened = @ \cup {Opened(Multi2to1)},
                         !.compared = @ \cup
                            {Compared(files[Multi2to1], Frame(MultiTrainParts)),
                             Compared(files[Multi2to1], Frame(MultiTestParts))}]
            /\ Return(call)
    /\ UNCHANGED <<script, data, files, entry, written, driver, call, outer, gen>>
    /\ UNCHANGED trainVars

(***************************************************************************)
(* The top level.  driver = "module": the statements of the module as they *)
(* are written.  driver = "any": the module with any of its functions      *)
(* called at the end of the file, in the order of the (partly commented    *)
(* out) calls there, with any arguments.                                   *)
(***************************************************************************)
ModuleTop(s) ==
    IF s = "simple_gan"
    THEN <<[fn |-> "generate_synthetic_samples", num_of_samples |-> 30000,
            bots |-> TRUE],
           [fn |-> "evaluate_synthetic_data"]>>
    ELSE IF s = "cgan"
    THEN <<[fn |-> "evaluate_synthetic_data"]>>
    ELSE <<[fn |-> "generate_samples_to_reach_30K_per_class"],
           [fn |-> "evaluate_synthetic_data"]>>

Allowed(c) ==
    /\ pc = "idle"
    /\ \/ /\ driver = "any"
          /\ stmt < Stage(c)
       \/ /\ driver = "module"
          /\ stmt < Len(ModuleTop(script))
          /\ ModuleTop(script)[stmt + 1] = c

TrainCalls(s) ==
    IF s = "simple_gan"
    THEN {[fn |-> "train_gan", epochs |-> e, bots |-> b] :
             e \in 0 .. MaxEpochs, b \in BOOLEAN}
    ELSE {[fn |-> "train_gan", epochs |-> e] : e \in 0 .. MaxEpochs}

GenerateCalls(s) ==
    IF s = "simple_gan"
    THEN {Gen(n, [bots |-> b]) : n \in {100, 30000}, b \in BOOLEAN}
    ELSE IF s = "cgan"
    THEN {Gen(100, [bots |-> b]) : b \in BOOLEAN}
    ELSE {Gen(100, [label |-> l]) : l \in Labels}

DatasetCalls(s) ==
    IF s = "simple_gan" THEN {}
    ELSE IF s = "cgan"
    THEN {[fn |-> "create_final_synthetic_dataset", test |-> t] : t \in BOOLEAN}
    ELSE {[fn |-> "generate_samples_to_reach_30K_per_class"],
          [fn |-> "generate_2to1_synthetic_samples"]}
         \cup {[fn |-> "generate_test_synthetic_data", two_to_one |-> t] :
                  t \in BOOLEAN}

CallTrainGan ==
    \E c \in TrainCalls(script) :
        /\ Allowed(c)
        /\ TrainGanBegin(c)
        /\ UNCHANGED <<script, data, stmt, driver, outer, mem, gen>>

CallGenerate ==
    \E c \in GenerateCalls(script) :
        /\ Allowed(c)
        /\ call' = c
        /\ entry' = files
        /\ GenerateBegin(c)
        /\ NoTraining
        /\ UNCHANGED <<script, data, stmt, driver, outer, mem>>

CallDataset ==
    \E c \in DatasetCalls(script) :
        /\ Allowed(c)
        /\ DatasetBegin(c)
        /\ UNCHANGED <<script, data, stmt, driver, mem>>

CallEvaluate ==
    /\ Allowed([fn |-> "evaluate_synthetic_data"])
    /\ script = "simple_gan" => mem.synthetic_data # None
    /\ EvaluateBegin([fn |-> "evaluate_synthetic_data"])
    /\ UNCHANGED <<script, data, driver>>

\* the process has ended (by an exception, or after a call), and the module
\* is run as it is written
RunAgain ==
    /\ pc \in {"idle", "raised"}
    /\ driver = "any"
    /\ pc' = "idle"
    /\ driver' = "module"
    /\ stmt' = 0
    /\ written' = {}
    /\ entry' = files
    /\ call' = None
    /\ outer' = None
    /\ mem' = NoMem
    /\ gen' = NoGen
    /\ NoTraining
    /\ UNCHANGED <<script, data, files>>

(***************************************************************************)
(* The initial states.                                                     *)
(***************************************************************************)
\* dataset sizes: none, a few rows, one full batch and a few rows
Sizes(b) == (0 .. SmallRows) \cup {b + k : k \in 1 .. SmallRows}

\* the input data of script s whose training frame has n rows
Dataset(s, n) ==
    IF s = "simple_gan"
    THEN [p \in AllParts |->
             IF p = Part(RawData, "train", 1) THEN n
             ELSE IF p = Part(RawData, "train", 0) THEN 1
             ELSE IF p = Part(RawData, "test", 0) THEN 1
             ELSE IF p = Part(RawData, "test", 1) THEN ((n + 1 + 3) \div 4) - 1
             ELSE 0]
    ELSE IF s = "cgan"
    THEN [p \in AllParts |->
             IF p = Part(TrainBots, "all", 1) THEN n - (IF n > 0 THEN 1 ELSE 0)
             ELSE IF p = Part(TrainHumans, "all", 0) THEN (IF n > 0 THEN 1 ELSE 0)
             ELSE IF p \in MultiTrainParts \cup MultiTestParts THEN 1
             ELSE 0]
    ELSE [p \in AllParts |->
             IF p = Part(TrainMulti, "all", 0) THEN n - (IF n > 0 THEN 1 ELSE 0)
             ELSE IF p = Part(TrainMulti, "all", 3) THEN (IF n > 0 THEN 1 ELSE 0)
             ELSE IF p \in MultiTestParts THEN 1
             ELSE 0]

Datasets(s) == {Dataset(s, n) : n \in Sizes(bs(s))}

\* files other programs may have left behind
Foreign(s) ==
    IF s = "cgan"
    THEN {[p \in Paths |-> Absent],
          [p \in Paths |-> IF p = Cgan2to1 THEN concat(<<>>) ELSE Absent]}
    ELSE IF s = "conditional_gan_multi"
    THEN {[p \in Paths |-> Absent],
          [p \in Paths |-> IF p = CganScaler THEN Scaler("cgan", BinaryParts)
                           ELSE Absent]}
    ELSE {[p \in Paths |-> Absent]}

Init ==
    /\ script \in Scripts
    /\ data \in Datasets(script)
    /\ files \in Foreign(script)
    /\ entry = files
    /\ written = {}
    /\ pc = "idle"
    /\ stmt = 0
    /\ driver \in {"module", "any"}
    /\ call = None
    /\ outer = None
    /\ mem = NoMem
    /\ gen = NoGen
    /\ train_loader = None
    /\ epoch = 0
    /\ idx = 0
    /\ G = Network
    /\ D = Network
    /\ outputs = NoTensor
    /\ targets = NoTensor
    /\ fake_targets = NoTensor
    /\ noise = None
    /\ fake_class_labels = None
    /\ fake_pass = NoPass
    /\ lists = EmptyLists
    /\ steps = <<>>

Next ==
    \/ CallTrainGan
    \/ ForEpoch
    \/ TrainDiscriminator
    \/ TrainGenerator
    \/ EpochEnd
    \/ SaveGenerator
    \/ CallGenerate
    \/ GenerateSamples
    \/ GenerateInverse
    \/ GenerateReturn
    \/ CallDataset
    \/ DatasetNext
    \/ DatasetDump
    \/ CallEvaluate
    \/ EvaluateSecond
    \/ RunAgain

Spec == Init /\ [][Next]_vars

(***************************************************************************)
(* Long epochs: train_gan alone, on loaders of about Hundreds * LogEvery   *)
(* batches.                                                                *)
(***************************************************************************)
\* numbers of batches: one, and one less than, exactly and one more than
\* each multiple of LogEvery
LongBatches ==
    {1} \cup {h * LogEvery + d : h \in 1 .. Hundreds, d \in {-1, 0, 1}}

\* the rows of a loader of B batches: a last batch of two rows, or a full one
\* when B is a multiple of LogEvery
LongRows(b, B) == IF B % LogEvery = 0 THEN B * b ELSE (B - 1) * b + 2

LongDatasets(s) == {Dataset(s, LongRows(bs(s), B)) : B \in LongBatches}

InitTrain ==
    /\ script \in Scripts
    /\ data \in LongDatasets(script)
    /\ files = [p \in Paths |-> Absent]
    /\ entry = files
    /\ written = {}
    /\ pc = "idle"
    /\ stmt = 0
    /\ driver = "any"
    /\ call = None
    /\ outer = None
    /\ mem = NoMem
    /\ gen = NoGen
    /\ train_loader = None
    /\ epoch = 0
    /\ idx = 0
    /\ G = Network
    /\ D = Network
    /\ outputs = NoTensor
    /\ targets = NoTensor
    /\ fake_targets = NoTensor
    /\ noise = None
    /\ fake_class_labels = None
    /\ fake_pass = NoPass
    /\ lists = EmptyLists
    /\ steps = <<>>

NextTrain ==
    \/ CallTrainGan
    \/ ForEpoch
    \/ TrainDiscriminator
    \/ TrainGenerator
    \/ EpochEnd
    \/ SaveGenerator

SpecTrain == InitTrain /\ [][NextTrain]_vars

(***************************************************************************)
(* Properties.                                                             *)
(***************************************************************************)
InTrainGan == call # None /\ call.fn = "train_gan"

Training == InTrainGan /\ train_loader # None

\* iterations of the running train_gan that ran to their end
Iterations ==
    epoch * len(train_loader)
        + (IF pc = "train_G" THEN idx - 1 ELSE IF pc = "for_batch" THEN idx ELSE 0)

\* C1: the optimizer steps of a train_gan run alternate, discriminator first:
\* the i-th step updates D alone when i is odd and G alone when i is even, and
\* after k iterations exactly k steps of each have been taken; an iteration
\* an exception cuts short has taken no step, so a discriminator step never
\* stays without its generator step.
C1_Alternation ==
    /\ \A i \in 1 .. Len(steps) :
          steps[i] = IF i % 2 = 1 THEN {"D"} ELSE {"G"}
    /\ (Training /\ pc \in {"for_batch", "for_epoch", "idle"})
          => Len(steps) = 2 * Iterations
    /\ (Training /\ pc = "train_G") => Len(steps) = 2 * Iterations + 1
    /\ (InTrainGan /\ pc = "raised") => Len(steps) % 2 = 0

\* the discriminator has just been stepped in the second batch of the second
\* epoch
C1_Witness ==
    /\ Training
    /\ pc = "train_G"
    /\ epoch = 1
    /\ idx = 2
    /\ Len(steps) = 7

\* C2: a train_gan whose loader has B >= 1 batches ends by returning after
\* exactly E epochs, E*B discriminator updates and E*B generator updates.
C2_FixedEpochs ==
    (Training /\ len(train_loader) >= 1 /\ pc \in {"idle", "raised"})
        => /\ pc = "idle"
           /\ epoch = call.epochs
           /\ Cardinality({i \in 1 .. Len(steps) : steps[i] = {"D"}})
                 = call.epochs * len(train_loader)
           /\ Cardinality({i \in 1 .. Len(steps) : steps[i] = {"G"}})
                 = call.epochs * len(train_loader)

GeneratorsWritten(fs1, fs2) == {p \in GeneratorPaths : fs1[p] # fs2[p]}

C3_SaveStep ==
    GeneratorsWritten(files, files') # {}
        => /\ Training
           /\ pc = "for_epoch"
           /\ pc' = "idle"
           /\ epoch = call.epochs
           /\ G.params = call.epochs * len(train_loader)
           /\ LET path == IF script = "simple_gan"
                          THEN (IF call.bots THEN BotGenerator ELSE HumanGenerator)
                          ELSE IF script = "cgan" THEN CganGenerator
                          ELSE MultiGenerator
              IN  /\ GeneratorsWritten(files, files') = {path}
                  /\ files'[path].params = call.epochs * len(train_loader)
                  /\ files'[path].by = script

C3_Saved ==
    /\ (InTrainGan /\ pc = "idle")
          => Cardinality(GeneratorsWritten(entry, files)) = 1
    /\ (InTrainGan /\ pc # "idle") => GeneratorsWritten(entry, files) = {}

\* C3: a generator file is written only by the last step of train_gan, after
\* every update of the last epoch, and holds the generator with all E*B
\* updates; a train_gan that returned wrote exactly one generator file, which in
\* simple_gan is the Bot file when bots is True and the Human file otherwise.
C3_PersistedOnce == []C3_Saved /\ [][C3_SaveStep]_vars

\* train_gan(epochs=2, bots=False) of simple_gan has returned after training
\* on two batches per epoch
C3_Witness ==
    /\ InTrainGan
    /\ pc = "idle"
    /\ script = "simple_gan"
    /\ ~call.bots
    /\ files[HumanGenerator] # Absent
    /\ files[HumanGenerator].params = 4
    /\ files[BotGenerator] = Absent

\* the generators that produced a synthetic dataset
GeneratorsOf(synthetic) ==
    IF synthetic.kind = "synthetic" THEN {synthetic.generator}
    ELSE {synthetic.parts[i].generator : i \in 1 .. Len(synthetic.parts)}

\* C4: the real data a comparison metric receives share no row with the data
\* the generator of the synthetic data was trained on.
C4_HeldOut ==
    \A c \in mem.compared :
        \A g \in GeneratorsOf(c.synthetic) :
            g.params > 0 => RowsOf(g.trained_on) \cap RowsOf(c.real.rows) = {}

\* C5: in simple_gan the loader of train_gan(bots=b) holds only rows of the
\* class b selects, and so does the training data of each saved generator.
C5_ClassOfBots ==
    /\ (script = "simple_gan" /\ Training)
          => LabelsOf(train_loader.rows) \subseteq {IF call.bots THEN 1 ELSE 0}
    /\ files[HumanGenerator] # Absent
          => LabelsOf(files[HumanGenerator].trained_on) \subseteq {0}
    /\ files[BotGenerator] # Absent
          => LabelsOf(files[BotGenerator].trained_on) \subseteq {1}

\* C6: the scaler generate_synthetic_samples has loaded is the one the
\* prepare_data of the same script stored in this call.
C6_SameScaler ==
    pc = "gen_return"
        => /\ gen.scaler.by = script
           /\ scaler_file(script) \in written

\* the synthetic-data files the generation functions of a script write
GenerationWrites(s) ==
    IF s = "simple_gan"
    THEN {simple_synthetic_file(b, n) : b \in BOOLEAN, n \in {100, 30000}}
    ELSE {final_file(c) : c \in DatasetCalls(s)}

\* C7: every synthetic-data file evaluate_synthetic_data opens is one a
\* generation function of the script writes, and when the module runs as it
\* is written the file was written by that run before it is opened.
C7_EvaluatesOwnData ==
    \A o \in mem.opened :
        /\ o.path \in GenerationWrites(script)
        /\ driver = "module" => o.written_before

\* what a step that may fail has in hand once it is past
C8_NothingSwallowed ==
    /\ pc \in {"for_epoch", "for_batch", "train_G"} => train_loader # None
    /\ pc \in {"gen_load", "gen_inverse", "gen_return"} => gen.real_data # None
    /\ pc \in {"gen_inverse", "gen_return"} => gen.generator # None
    /\ pc = "gen_return" => gen.scaler # None
    /\ pc = "eval_second" => files[Multi30K] # Absent /\ files[CganScaler] # Absent

C8_FailedWritesNothing ==
    pc = "raised"
        => /\ call.fn = "train_gan"
                => \A p \in GeneratorPaths \cup PlotPaths : files[p] = entry[p]
           /\ call.fn # "train_gan"
                => \A p \in SyntheticPaths : files[p] = entry[p]

C8_Aborted ==
    pc = "raised"
        => /\ files' = files
           /\ pc' = "idle"
           /\ call' = None
           /\ mem' = NoMem

\* C8: a step that fails ends the process there: no later step of the
\* operation runs, nothing is written afterwards, a failed train_gan leaves
\* the generator files as they were and a failed generation leaves the
\* synthetic-data files as they were.
C8_Propagation ==
    [](C8_NothingSwallowed /\ C8_FailedWritesNothing) /\ [][C8_Aborted]_vars

\* generate_synthetic_samples failed on the missing generator file, after its
\* prepare_data had stored the scaler
C8_Witness ==
    /\ pc = "raised"
    /\ call # None
    /\ call.fn = "generate_synthetic_samples"
    /\ gen.real_data # None
    /\ gen.generator = None
    /\ written # {}

\* C9: after the discriminator step of an iteration on n real rows the
\* targets are n ones then n zeros, the ones facing the outputs for the real
\* rows and the zeros those for the fake rows; after the generator step its
\* targets are n ones.
C9_Targets ==
    /\ (Training /\ pc = "train_G")
          => LET n == BatchRows(train_loader, idx)
             IN  /\ targets.data = [i \in 1 .. 2 * n |-> IF i <= n THEN 1 ELSE 0]
                 /\ outputs.data =
                       [i \in 1 .. 2 * n |-> IF i <= n THEN "real" ELSE "fake"]
                 /\ outputs.shape = targets.shape
    /\ (Training /\ pc = "for_batch" /\ idx >= 1)
          => LET n == BatchRows(train_loader, idx)
             IN  fake_targets.data = [i \in 1 .. n |-> 1]

\* the last batch of an epoch, smaller than the ones before it, has been
\* through both steps
C9_Witness ==
    /\ Training
    /\ pc = "for_batch"
    /\ idx = len(train_loader)
    /\ idx >= 2
    /\ BatchRows(train_loader, idx) < BatchRows(train_loader, 1)
    /\ Len(fake_targets.data) = BatchRows(train_loader, idx)
    /\ Len(targets.data) = 2 * BatchRows(train_loader, idx)

C10_Frame ==
    /\ (pc = "for_batch" /\ pc' = "train_G")
          => /\ G'.params = G.params
             /\ D'.params = D.params + 1
    /\ (pc = "train_G" /\ pc' = "for_batch")
          => /\ D'.params = D.params
             /\ G'.params = G.params + 1

\* C10: the discriminator step changes the discriminator's parameters and no
\* parameter of the generator; the generator step changes the generator's
\* parameters and no parameter of the discriminator.
C10_StepFrame == [][C10_Frame]_vars

\* the discriminator has been stepped while the generator held a gradient of
\* the discriminator's loss, and the generator's parameters are as before
C10_Witness ==
    /\ Training
    /\ pc = "train_G"
    /\ G.grad # {}
    /\ D.params = G.params + 1
    /\ G.params >= 1

\* C11: every optimizer step applies the gradient of the loss of its own
\* iteration and nothing else: D_optimizer.step() that of the iteration's
\* D_loss, G_optimizer.step() that of the iteration's G_loss, whatever the
\* other network's backward pass left in the buffers, in every epoch.
C11_OwnGradient ==
    /\ (Training /\ pc = "train_G")
          => D.applied = {<<"D_loss", epoch, idx>>}
    /\ (Training /\ pc = "for_batch" /\ idx >= 1)
          => G.applied = {<<"G_loss", epoch, idx>>}

\* the discriminator has been stepped in the first iteration of the second
\* epoch, after the last G_loss of the first epoch had left its gradient in
\* the discriminator; the generator still holds that of this D_loss
C11_Witness ==
    /\ Training
    /\ pc = "train_G"
    /\ epoch = 1
    /\ idx = 1
    /\ D.applied = {<<"D_loss", 1, 1>>}
    /\ <<"D_loss", 1, 1>> \in G.grad
    /\ <<"G_loss", 0, len(train_loader)>> \in G.applied

\* the 1-based indices, up to k, of the batches of a loader of B batches
\* whose monitoring values are to be kept
KeptUpTo(k, B) ==
    SelectSeq([i \in 1 .. k |-> i], LAMBDA i : i % 100 = 0 \/ i = B)

\* C12: in an epoch of B >= 1 batches the D loss, the G loss and the D
\* accuracy are kept at the batches whose index is a multiple of 100 and at
\* the last batch, once each; at the end of the epoch the three lists have
\* ceil(B/100) >= 1 entries, so no mean is taken over an empty list.
C12_Monitoring ==
    /\ (Training /\ pc = "for_batch")
          => LET B == len(train_loader)
                 at == KeptUpTo(idx, B)
             IN  /\ lists.acc =
                       [j \in 1 .. Len(at) |-> <<"D_accuracy", epoch, at[j]>>]
                 /\ lists.epoch_D_loss =
                       [j \in 1 .. Len(at) |-> <<"D_loss", epoch, at[j]>>]
                 /\ lists.epoch_G_loss =
                       [j \in 1 .. Len(at) |-> <<"G_loss", epoch, at[j]>>]
                 /\ (idx = B /\ B >= 1)
                       => /\ Len(lists.acc) = (B + 99) \div 100
                          /\ Len(lists.acc) >= 1
    /\ (Training /\ len(train_loader) >= 1)
          => /\ Len(lists.D_acc) = epoch
             /\ Len(lists.mean_D_loss) = epoch
             /\ Len(lists.mean_G_loss) = epoch
             /\ \A e \in 1 .. Len(lists.D_acc) :
                   /\ Len(lists.D_acc[e][2]) = (len(train_loader) + 99) \div 100
                   /\ Len(lists.mean_D_loss[e][2]) = Len(lists.D_acc[e][2])
                   /\ Len(lists.mean_G_loss[e][2]) = Len(lists.D_acc[e][2])

\* the last of 200 batches of the second epoch is through: it was kept once
C12_Witness ==
    /\ Training
    /\ pc = "for_batch"
    /\ epoch = 1
    /\ len(train_loader) = 200
    /\ idx = 200
    /\ Len(lists.acc) = 2
    /\ lists.acc[2] = <<"D_accuracy", 1, 200>>
    /\ Len(lists.D_acc) = 1

\* C13: in cgan and conditional_gan_multi the fake class labels of an
\* iteration on n real rows are n labels, each in 0 .. num_classes - 1, drawn
\* in the discriminator step; the generator step gives G the same labels and
\* a newly drawn noise; in both steps D receives, with the fake batch, the
\* labels G was given to make it.
C13_SameLabels ==
    (script # "simple_gan" /\ Training)
        => /\ pc = "train_G"
                => /\ fake_class_labels.n = BatchRows(train_loader, idx)
                   /\ fake_class_labels.values # {}
                   /\ fake_class_labels.values
                         \subseteq 0 .. ((IF script = "cgan" THEN 2 ELSE 6) - 1)
                   /\ fake_class_labels.draw = <<epoch, idx, "D">>
                   /\ fake_pass.D.G_labels = fake_class_labels
                   /\ fake_pass.D.D_labels = fake_pass.D.G_labels
           /\ (pc = "for_batch" /\ idx >= 1)
                => /\ fake_pass.G.G_labels = fake_pass.D.G_labels
                   /\ fake_pass.G.D_labels = fake_pass.G.G_labels
                   /\ fake_pass.G.G_labels.draw = <<epoch, idx, "D">>
                   /\ fake_pass.G.noise # fake_pass.D.noise
                   /\ fake_pass.G.noise.n = fake_pass.G.G_labels.n

\* conditional_gan_multi has been through both steps of the second, smaller
\* batch of its second epoch
C13_Witness ==
    /\ script = "conditional_gan_multi"
    /\ Training
    /\ pc = "for_batch"
    /\ epoch = 1
    /\ idx = 2
    /\ fake_pass.G # None
    /\ fake_pass.G.G_labels.n = 2
    /\ fake_pass.G.G_labels.values = 0 .. 5
    /\ fake_pass.G.noise.draw = <<1, 2, "G">>

\* the label distribution listed in generate_samples_to_reach_30K_per_class
ListedCount == <<24403, 9333, 408, 13283, 958, 4703>>

\* C14: every call of generate_synthetic_samples made for class c yields
\* num_of_samples rows that all carry label c; the dataset
\* generate_samples_to_reach_30K_per_class writes has, for every class c in
\* 0 .. 5, 30000 minus the listed count of c rows labelled c, and 126912 rows
\* in all.
C14_Balanced ==
    /\ (script = "conditional_gan_multi" /\ pc \in {"gen_inverse", "gen_return"})
          => /\ gen.synthetic_samples.labels.values = {gen.args.label}
             /\ gen.synthetic_samples.labels.n = gen.args.num_of_samples
             /\ gen.synthetic_samples.n = gen.args.num_of_samples
    /\ (script = "conditional_gan_multi" /\ Multi30K \in written)
          => LET final_df == files[Multi30K].parts
             IN  /\ \A c \in 0 .. 5 :
                       CountRows(final_df, {c})
                          + ListedCount[c + 1] = 30000
                 /\ \A i \in 1 .. Len(final_df) :
                       Cardinality(final_df[i].labels.values) = 1
                 /\ CountRows(final_df, 0 .. 5) = 126912

\* generate_samples_to_reach_30K_per_class has returned and its file holds
\* the six frames
C14_Witness ==
    /\ script = "conditional_gan_multi"
    /\ pc = "idle"
    /\ call # None
    /\ call.fn = "generate_samples_to_reach_30K_per_class"
    /\ Multi30K \in written
    /\ Len(files[Multi30K].parts) = 6
    /\ files[Multi30K].parts[3].n = 29592
====
